---- MODULE Spec2Model ----
(***************************************************************************)
(* State-machine model of the NovaClip video editor (App component,        *)
(* src/unnamed/part_000) and its analysis service                          *)
(* (src/services/geminiService.ts).                                        *)
(*                                                                         *)
(* Conventions                                                             *)
(*  - A caption text is the sequence of its UTF-16 units (text.split('')). *)
(*  - Pixel quantities are kept in hundredths of a pixel so that the       *)
(*    factors 0.85, 1.2 and 0.92 of the source stay exact integers.        *)
(*  - Times of segments are whole seconds, the clock is in milliseconds.   *)
(*  - A promise continuation runs in the microtask that follows the        *)
(*    settling callback, before any other task: settling and continuation  *)
(*    form one action.                                                     *)
(***************************************************************************)
EXTENDS Integers, Sequences, FiniteSets, TLC

\* ------------------------------------------------------------------ bounds
MaxQueue == 2
MaxUrls == 2
MaxRuns == 1
MaxOrphans == 1
MaxTextLen == 3

\* --------------------------------------------------------------- constants
Null == "null"

\* AppStatus (types.ts); UPLOADING is declared and never assigned.
IDLE == "IDLE"
ANALYZING == "ANALYZING"
READY == "READY"
GENERATING == "GENERATING"
COMPLETED == "COMPLETED"
AppStatus == {IDLE, "UPLOADING", ANALYZING, READY, GENERATING, COMPLETED}

\* The values setError receives.
ErrEmptyQueue == "ERR_EMPTY_QUEUE"            \* "请先在右侧列表中点击选择字幕片段"
ErrComposeUnknown == "ERR_COMPOSE_UNKNOWN"    \* "合成视频失败: 未知错误"
ErrAnalysis == "ERR_ANALYSIS"                 \* err.message || '分析失败'

\* ------------------------------------------------------------ environment
\* Caption units.
Chars == {"W", "i"}

\* The font the host resolves `bold Npx "Microsoft YaHei", sans-serif` to
\* decides every width wrapText measures; the source fixes none. A font is
\* given by the advance of each unit and by what its shaping adds between
\* two neighbours, in 1/100 px per px of font size:
\*   "sans"   a bold sans-serif with a wide W and a narrow i (DejaVu Sans
\*            Bold, the fallback of a host without Microsoft YaHei);
\*   "even"   a bold face whose i is half as wide as its W;
\*   "shaped" the metrics of "sans" with a shaping rule that sets a W that
\*            follows an i almost wholly over the i, as a mark is set on
\*            its base: alone the W keeps its full advance.
\* HostFonts are the fonts the canvas of a run is given; wrapText itself
\* takes any ctx.
HostFonts == {"sans", "even"}
Fonts == HostFonts \cup {"shaped"}

advanceWidth(font, c) ==
  IF font = "even"
    THEN (IF c = "W" THEN 100 ELSE 50)
    ELSE (IF c = "W" THEN 110 ELSE 34)

kerning(font, left, right) ==
  IF font = "shaped" /\ left = "i" /\ right = "W" THEN -100 ELSE 0

\* SubtitleSegment values the analysis service can return.
SegA == [id |-> "a", startTime |-> 0, endTime |-> 1, text |-> <<"W", "i">>,
         isRedundant |-> FALSE]
SegB == [id |-> "b", startTime |-> 2, endTime |-> 3, text |-> <<"W", "W", "i">>,
         isRedundant |-> FALSE]
SegR == [id |-> "r", startTime |-> 3, endTime |-> 4, text |-> <<"i">>,
         isRedundant |-> TRUE]
\* A record with every required field whose times make no interval.
SegZ == [id |-> "z", startTime |-> 1, endTime |-> 1, text |-> <<"i">>,
         isRedundant |-> FALSE]

\* response.text of generateContent: a JSON array, JSON that is no array
\* (an object, null, a number), unparseable text, or "".
Responses ==
  { [kind |-> "array", value |-> <<SegA, SegR, SegB>>],
    [kind |-> "array", value |-> <<SegZ>>],
    [kind |-> "array", value |-> <<>>],
    [kind |-> "object", value |-> <<>>],
    [kind |-> "unparseable", value |-> <<>>],
    [kind |-> "empty", value |-> <<>>] }

\* Pixel size (videoWidth, videoHeight) of the uploaded file.
VideoSize == [width |-> 4, height |-> 36]

\* sourceVideo.duration of the uploaded file, in seconds: SegA lies within
\* it, SegB and SegR start after its end.
SourceDuration == 1

VARIABLES
  status,            \* useState<AppStatus>
  video,             \* useState<VideoMetadata | null>: Null or its url
  segments,          \* useState<SubtitleSegment[]>: the value setSegments got
  selectedSegments,  \* useState<SubtitleSegment[]>: the selection queue
  error,             \* useState<string | null>
  finalVideoUrl,     \* useState<string | null>: Null or an object URL
  urlCount,          \* object URLs created so far by URL.createObjectURL
  pendingAnalyses,   \* startAnalysis calls awaiting analyzeVideoWithGemini
  runs,              \* the composeVideoSegments calls still alive, by slot
  orphans,           \* calls onerror rejected whose recorder has yet to stop
  abandoned,         \* calls onerror rejected whose recorder never stops
  call,              \* arguments of the last wrapText call
  drawn,             \* strokeText/fillText calls of the last wrapText call
  lastOp             \* the last call of a handler made past the view, if any

vars == <<status, video, segments, selectedSegments, error, finalVideoUrl,
          urlCount, pendingAnalyses, runs, orphans, abandoned, call,
          drawn,
          lastOp>>

sessionVars == <<status, video, segments, selectedSegments, error,
                 finalVideoUrl, urlCount, pendingAnalyses>>

\* ------------------------------------------------------- caption layout
\* ctx.measureText(line).width for the font set on ctx, in 1/100 px: the
\* advances of the units and the shaping between neighbours add up and
\* scale with the font size.
RECURSIVE lineWidth(_, _)
lineWidth(font, line) ==
  IF line = <<>>
    THEN 0
    ELSE IF Len(line) = 1
      THEN advanceWidth(font, line[1])
      ELSE advanceWidth(font, line[1]) + kerning(font, line[1], line[2])
             + lineWidth(font, Tail(line))

measureText(ctx, line) == ctx.fontSize * lineWidth(ctx.font, line)

\* Variant of WrapStep that breaks the line before a unit that does not
\* fit even when the unit is the first of the text.
WrapStepAnyUnit(ctx, words, n, line, lines, maxWidth) ==
  LET testLine == Append(line, words[n])
      testWidth == measureText(ctx, testLine)
  IN  IF testWidth > maxWidth
        THEN <<(<<words[n]>>), Append(lines, line)>>
        ELSE <<testLine, lines>>

\* Variant of WrapStep that also breaks a line that fits exactly.
WrapStepBreaksExactFit(ctx, words, n, line, lines, maxWidth) ==
  LET testLine == Append(line, words[n])
      testWidth == measureText(ctx, testLine)
  IN  IF testWidth >= maxWidth /\ n > 1
        THEN <<(<<words[n]>>), Append(lines, line)>>
        ELSE <<testLine, lines>>

\* One pass of the loop body of wrapText for words[n] (n counts from 1 here,
\* from 0 in the source): the pair <<line, lines>> after the pass.
WrapStep(ctx, words, n, line, lines, maxWidth) ==
  LET testLine == Append(line, words[n])
      testWidth == measureText(ctx, testLine)
  IN  IF testWidth > maxWidth /\ n > 1
        THEN <<(<<words[n]>>), Append(lines, line)>>
        ELSE <<testLine, lines>>

RECURSIVE WrapLoop(_, _, _, _, _, _)
WrapLoop(ctx, words, n, line, lines, maxWidth) ==
  IF n > Len(words)
    THEN Append(lines, line)
    ELSE LET st == WrapStep(ctx, words, n, line, lines, maxWidth)
         IN  WrapLoop(ctx, words, n + 1, st[1], st[2], maxWidth)

\* The array `lines` wrapText builds for text.
wrapLines(ctx, text, maxWidth) == WrapLoop(ctx, text, 1, <<>>, <<>>, maxWidth)

\* Variant of firstLineY that anchors the top of the block, not its last
\* baseline.
firstLineYBlockTop(y, nLines, lineHeight) ==
  LET totalHeight == nLines * lineHeight
  IN  y - totalHeight

\* currentY before the first line is drawn.
firstLineY(y, nLines, lineHeight) ==
  LET totalHeight == nLines * lineHeight
  IN  y - totalHeight + lineHeight

\* The drawing loop: strokeText then fillText per line, currentY stepping down
\* the frame by lineHeight.
RECURSIVE drawLines(_, _, _, _)
drawLines(lines, x, currentY, lineHeight) ==
  IF lines = <<>>
    THEN <<>>
    ELSE << [op |-> "strokeText", text |-> Head(lines), x |-> x, y |-> currentY],
            [op |-> "fillText", text |-> Head(lines), x |-> x, y |-> currentY] >>
         \o drawLines(Tail(lines), x, currentY + lineHeight, lineHeight)

\* wrapText: the sequence of text-drawing calls it issues on ctx.
wrapText(ctx, text, x, y, maxWidth, lineHeight) ==
  LET lines == wrapLines(ctx, text, maxWidth)
  IN  drawLines(lines, x, firstLineY(y, Len(lines), lineHeight), lineHeight)

\* The caption of one frame of renderFrame on a canvas of the given size:
\* the arguments renderFrame passes to wrapText (1/100 px), and the font
\* the host gave ctx when the frame set ctx.font.
captionCall(canvas, text, font) ==
  LET fontSize == canvas.height \div 18
  IN  [ fontSize |-> fontSize,
        font |-> font,
        text |-> text,
        x |-> (canvas.width * 100) \div 2,
        y |-> canvas.height * 92,
        maxWidth |-> canvas.width * 85,
        lineHeight |-> fontSize * 120 ]

NoCall == [fontSize |-> 0, font |-> "", text |-> <<>>, x |-> 0, y |-> 0,
           maxWidth |-> 0, lineHeight |-> 0]

\* The ctx of a call: its font size and the font the host resolved.
ctxOf(c) == [fontSize |-> c.fontSize, font |-> c.font]

drawCaption(c) ==
  wrapText(ctxOf(c), c.text, c.x, c.y, c.maxWidth, c.lineHeight)

\* ------------------------------------------------------------- helpers
\* URL.createObjectURL: a URL no earlier call returned.
createObjectURL(n) == "blob:" \o ToString(n)

\* The object URLs created and not yet revoked: the component never calls
\* URL.revokeObjectURL, so these are all the URLs it created.
unrevokedUrls == {createObjectURL(n) : n \in 1..urlCount}

\* Variant of FilterNotIndex that filters by value: every element equal to
\* the one at index goes.
FilterNotValue(prev, i, index) ==
  IF index - i + 1 \in 1..Len(prev)
    THEN SelectSeq(prev, LAMBDA s : s # prev[index - i + 1])
    ELSE prev

\* prev.filter((_, i) => i !== index) with the 0-based index of the source.
RECURSIVE FilterNotIndex(_, _, _)
FilterNotIndex(prev, i, index) ==
  IF prev = <<>>
    THEN <<>>
    ELSE (IF i # index THEN <<Head(prev)>> ELSE <<>>)
         \o FilterNotIndex(Tail(prev), i + 1, index)

\* Variant of FilterUseful that keeps every segment.
FilterNothing(segs) == segs

\* What JSON.parse can hand to setSegments: an array with its items, or a
\* value that is no array and has no filter method.
JsonArray(items) == [isArray |-> TRUE, items |-> items]
JsonNoArray == [isArray |-> FALSE, items |-> <<>>]

\* segments.filter(s => !s.isRedundant)
RECURSIVE FilterUseful(_)
FilterUseful(segs) ==
  IF segs = <<>>
    THEN <<>>
    ELSE (IF ~Head(segs).isRedundant THEN <<Head(segs)>> ELSE <<>>)
         \o FilterUseful(Tail(segs))

filteredSegments == FilterUseful(segments.items)

\* Rendering App evaluates segments.filter: a TypeError when segments is no
\* array. No error boundary catches it, React unmounts the tree, and no
\* control is rendered any more.
renderThrows == ~segments.isArray

\* selectedSegments.map(s => s.text).join('\n'): the texts in queue order
\* (the effect that keeps selectedText equal to it runs after every change).
RECURSIVE JoinTexts(_)
JoinTexts(segs) ==
  IF segs = <<>> THEN <<>>
  ELSE IF Len(segs) = 1 THEN Head(segs).text
  ELSE Head(segs).text \o <<"\n">> \o JoinTexts(Tail(segs))

selectedText == JoinTexts(selectedSegments)

\* analyzeVideoWithGemini after generateContent answered: JSON.parse of
\* response.text || "[]", and [] when JSON.parse throws.
analyzeResult(response) ==
  CASE response.kind = "array" -> JsonArray(response.value)
    [] response.kind = "object" -> JsonNoArray
    [] response.kind = "empty" -> JsonArray(<<>>)
    [] response.kind = "unparseable" -> JsonArray(<<>>)

\* ------------------------------------------------------------------ Init
Init ==
  /\ status = IDLE
  /\ video = Null
  /\ segments = JsonArray(<<>>)
  /\ selectedSegments = <<>>
  /\ error = Null
  /\ finalVideoUrl = Null
  /\ urlCount = 0
  /\ pendingAnalyses = 0
  /\ runs = [r \in 1..MaxRuns |-> [ segs |-> <<>>, k |-> 0, pc |-> "free", promise |-> "none",
         paused |-> TRUE, elapsed |-> 0, recorder |-> "none", timer |-> 0,
         currentTime |-> 0, canvas |-> <<>>, log |-> <<>> ]]
  /\ orphans = 0
  /\ abandoned = 0
  /\ call = NoCall
  /\ drawn = <<>>
  /\ lastOp = [op |-> "none", n |-> 0, outcome |-> "none"]

\* ------------------------------------------------- upload and analysis
\* handleFileUpload with a file chosen; startAnalysis runs up to its await.
handleFileUpload ==
  /\ urlCount < MaxUrls
  /\ urlCount' = urlCount + 1
  /\ video' = createObjectURL(urlCount + 1)
  /\ status' = ANALYZING
  /\ pendingAnalyses' = pendingAnalyses + 1
  /\ UNCHANGED <<segments, selectedSegments, error, finalVideoUrl, runs,
                 orphans, abandoned>>

\* startAnalysis resumes with the result of analyzeVideoWithGemini.
AnalysisResolved(response) ==
  /\ pendingAnalyses > 0
  /\ pendingAnalyses' = pendingAnalyses - 1
  /\ segments' = analyzeResult(response)
  /\ status' = READY
  /\ UNCHANGED <<video, selectedSegments, error, finalVideoUrl, urlCount,
                 runs, orphans, abandoned>>

\* analyzeVideoWithGemini rejects (file read or generateContent failed):
\* the catch block of startAnalysis.
AnalysisRejected ==
  /\ pendingAnalyses > 0
  /\ pendingAnalyses' = pendingAnalyses - 1
  /\ error' = ErrAnalysis
  /\ status' = IDLE
  /\ UNCHANGED <<video, segments, selectedSegments, finalVideoUrl, urlCount,
                 runs, orphans, abandoned>>

\* ------------------------------------------------------ selection queue
handleAddSegment(seg) ==
  /\ Len(selectedSegments) < MaxQueue
  /\ selectedSegments' = Append(selectedSegments, seg)
  /\ UNCHANGED <<status, video, segments, error, finalVideoUrl, urlCount,
                 pendingAnalyses, runs, orphans, abandoned>>

handleRemoveSegment(index) ==
  /\ selectedSegments' = FilterNotIndex(selectedSegments, 0, index)
  /\ UNCHANGED <<status, video, segments, error, finalVideoUrl, urlCount,
                 pendingAnalyses, runs, orphans, abandoned>>

\* onClick of the clear button: setSelectedSegments([])
clearQueue ==
  /\ selectedSegments' = <<>>
  /\ UNCHANGED <<status, video, segments, error, finalVideoUrl, urlCount,
                 pendingAnalyses, runs, orphans, abandoned>>

\* onClick of the error toast's button: setError(null)
dismissError ==
  /\ error' = Null
  /\ UNCHANGED <<status, video, segments, selectedSegments, finalVideoUrl,
                 urlCount, pendingAnalyses, runs, orphans, abandoned>>

\* onClick of the result dialog's back button: setStatus(AppStatus.READY)
dismissResult ==
  /\ status' = READY
  /\ UNCHANGED <<video, segments, selectedSegments, error, finalVideoUrl,
                 urlCount, pendingAnalyses, runs, orphans, abandoned>>

\* ---------------------------------------------------- recording pipeline
\* One call of composeVideoSegments(segs): the promise it returned, the
\* position of its async onloadedmetadata handler, and the host objects it
\* created (source video element, MediaRecorder).
\*   pc: "free"      no call occupies the slot
\*       "loading"   waiting for loadedmetadata (or error)
\*       "seeking"   awaiting the seeked event of segment k
\*       "rendering" awaiting the render loop of segment k
\*       "grace"     the 500 ms timer before recorder.stop() is pending
\*       "stopping"  recorder.stop() called, onstop not yet delivered
\*       "threw"     an exception left the handler or a frame callback:
\*                   no code of the call runs any more, and only the error
\*                   event of the source element can still settle the
\*                   promise
\* onerror stays installed for the life of the source element: it rejects
\* the promise wherever the call is. A call rejected after the metadata had
\* loaded goes on looping and recording, and nothing it does reaches the
\* session any more (resolve() on a rejected promise does nothing): it
\* leaves its slot and is counted in orphans until its recorder has stopped.
\* A call that threw is over once it is rejected and leaves its slot: no
\* callback of it will run again. The only recorder.stop() is in the timer
\* set after the loop, which the call never reaches: a recorder it had
\* started goes on recording for good, and the call is counted in abandoned.
\*   elapsed: Date.now() - startRenderTime, kept as the difference the
\*            source uses (startRenderTime lives for one loop body);
\*   timer:   what is left of the 500 ms of setTimeout;
\*   currentTime: the position the last seek or play() took the source
\*            element to;
\*   canvas:  the text-drawing calls of the last frame drawn on its canvas.
\* A call whose callbacks have all run (or can never run) leaves its slot.
NoRun ==
  [ segs |-> <<>>, k |-> 0, pc |-> "free", promise |-> "none", paused |-> TRUE,
    elapsed |-> 0, recorder |-> "none", timer |-> 0,
    currentTime |-> 0, canvas |-> <<>>, log |-> <<>> ]

newRun(segs) ==
  [NoRun EXCEPT !.segs = segs, !.pc = "loading", !.promise = "pending"]

RunIds == 1..MaxRuns
LiveRuns == {r \in RunIds : runs[r].pc # "free"}
PendingRuns == {r \in RunIds : runs[r].promise = "pending"}
FreeSlot == CHOOSE r \in RunIds :
  runs[r].pc = "free" /\ \A q \in RunIds : q < r => runs[q].pc # "free"

\* Variant of enterSegment that walks the queue from its end.
enterSegmentBackwards(run, k, seekFault) ==
  IF k > Len(run.segs)
    THEN [run EXCEPT !.pc = "grace", !.timer = 500, !.elapsed = 0]
    ELSE IF seekFault
      THEN [run EXCEPT !.pc = "threw", !.k = k, !.elapsed = 0]
      ELSE [run EXCEPT !.pc = "seeking", !.k = k, !.elapsed = 0,
                       !.log = Append(@, <<"seek",
                                 run.segs[Len(run.segs) - k + 1].id>>)]

\* Variant of enterSegment that reads the queue of the session at every
\* iteration instead of the array the call was given.
enterSegmentLiveQueue(run, k, seekFault) ==
  IF k > Len(selectedSegments)
    THEN [run EXCEPT !.pc = "grace", !.timer = 500, !.elapsed = 0,
                     !.segs = selectedSegments]
    ELSE IF seekFault
      THEN [run EXCEPT !.pc = "threw", !.k = k, !.elapsed = 0,
                       !.segs = selectedSegments]
      ELSE [run EXCEPT !.pc = "seeking", !.k = k, !.elapsed = 0,
                       !.segs = selectedSegments,
                       !.log = Append(@, <<"seek", selectedSegments[k].id>>)]

\* sourceVideo.currentTime = t: a position after the end of the media is
\* replaced by the end of the media; the seek completes like any other.
seekPosition(t) == IF t > SourceDuration THEN SourceDuration ELSE t

\* The body of `for (const seg of segs)` up to its first await, for the
\* k-th element, or the code after the loop when the iterator is exhausted.
\* seekFault: setProcessingMsg or the currentTime assignment throws.
enterSegment(run, k, seekFault) ==
  IF k > Len(run.segs)
    THEN [run EXCEPT !.pc = "grace", !.timer = 500, !.elapsed = 0]
    ELSE IF seekFault
      THEN [run EXCEPT !.pc = "threw", !.k = k, !.elapsed = 0]
      ELSE [run EXCEPT !.pc = "seeking", !.k = k, !.elapsed = 0,
                       !.currentTime = seekPosition(run.segs[k].startTime),
                       !.log = Append(@, <<"seek", run.segs[k].id>>)]

\* Variant of composeFulfilled that creates the URL and does not store it.
composeFulfilledUrlDropped ==
  /\ urlCount' = urlCount + 1
  /\ status' = COMPLETED
  /\ UNCHANGED <<video, segments, selectedSegments, error, finalVideoUrl,
                 pendingAnalyses>>

\* The continuation of handleGenerateFinalVideo after
\* `await composeVideoSegments(...)` fulfilled with the blob.
composeFulfilled ==
  /\ urlCount' = urlCount + 1
  /\ finalVideoUrl' = createObjectURL(urlCount + 1)
  /\ status' = COMPLETED
  /\ UNCHANGED <<video, segments, selectedSegments, error, pendingAnalyses>>

\* Variant of composeRejected that falls back to IDLE, as the catch block
\* of startAnalysis does.
composeRejectedToIdle ==
  /\ error' = ErrComposeUnknown
  /\ status' = IDLE
  /\ UNCHANGED <<video, segments, selectedSegments, finalVideoUrl, urlCount,
                 pendingAnalyses>>

\* The catch block of handleGenerateFinalVideo: compose rejects with a
\* string, so err.message is undefined.
composeRejected ==
  /\ error' = ErrComposeUnknown
  /\ status' = READY
  /\ UNCHANGED <<video, segments, selectedSegments, finalVideoUrl, urlCount,
                 pendingAnalyses>>

\* Variant of handleGenerateFinalVideo without the test of the queue length.
handleGenerateUnguarded(ctxOK) ==
  IF ctxOK
    THEN /\ LiveRuns # RunIds
         /\ runs' = [runs EXCEPT ![FreeSlot] = newRun(selectedSegments)]
         /\ status' = GENERATING
         /\ UNCHANGED <<video, segments, selectedSegments, error,
                        finalVideoUrl, urlCount, pendingAnalyses, orphans, abandoned>>
    ELSE /\ composeRejected
         /\ UNCHANGED <<runs, orphans, abandoned>>

\* handleGenerateFinalVideo, to its await (and through its catch block when
\* compose rejects at once); ctxOK: canvas.getContext('2d') returned a
\* context.
handleGenerateFinalVideo(ctxOK) ==
  IF Len(selectedSegments) = 0
    THEN /\ error' = ErrEmptyQueue
         /\ UNCHANGED <<status, video, segments, selectedSegments,
                        finalVideoUrl, urlCount, pendingAnalyses,
                        runs, orphans, abandoned>>
    ELSE IF ctxOK
      THEN /\ LiveRuns # RunIds
           /\ runs' = [runs EXCEPT ![FreeSlot] = newRun(selectedSegments)]
           /\ status' = GENERATING
           /\ UNCHANGED <<video, segments, selectedSegments, error,
                          finalVideoUrl, urlCount, pendingAnalyses, orphans, abandoned>>
      ELSE /\ composeRejected
           /\ UNCHANGED <<runs, orphans, abandoned>>

\* sourceVideo.onloadedmetadata up to its first await. fault "setup": the
\* AudioContext, the MediaRecorder constructor or recorder.start() throws.
LoadedMetadata(r, fault) ==
  /\ runs[r].pc = "loading"
  /\ runs' = [runs EXCEPT ![r] =
       IF fault = "setup"
         THEN [@ EXCEPT !.pc = "threw"]
         ELSE enterSegment([@ EXCEPT !.recorder = "recording",
                                     !.log = Append(@, <<"start", "">>)],
                           1, fault = "seek")]
  /\ UNCHANGED <<sessionVars, orphans, abandoned>>

\* What onerror leaves of a call whose recorder was started: a recording
\* session that nothing ends when the call threw, and otherwise an orphan
\* whose loop, timer or recorder stop event is still to come. It leaves
\* nothing of a call that started no recorder.
isAbandoned(run) == run.pc = "threw" /\ run.recorder # "none"
isOrphaned(run) == run.pc # "threw" /\ run.recorder # "none"

\* sourceVideo.onerror: reject("视频加载失败"), then the catch block of the
\* handler, wherever the call is while its promise is pending.
MediaError(r) ==
  /\ runs[r].pc # "free"
  /\ runs[r].promise = "pending"
  /\ runs[r].recorder # "none" => orphans + abandoned < MaxOrphans
  /\ runs' = [runs EXCEPT ![r] = NoRun]
  /\ orphans' = IF isOrphaned(runs[r]) THEN orphans + 1 ELSE orphans
  /\ abandoned' = IF isAbandoned(runs[r]) THEN abandoned + 1 ELSE abandoned
  /\ composeRejected

\* The recorder of an orphaned call has stopped and its onstop has run.
OrphanStopped ==
  /\ orphans > 0
  /\ orphans' = orphans - 1
  /\ UNCHANGED <<sessionVars, runs, abandoned>>

\* Where sourceVideo.play() leaves the element: an element that has ended
\* playback (its position is the end of the media) is taken back to the
\* start, unless the host has it end again at once; elsewhere, and when the
\* host refuses playback, the position stays.
playPositions(t, playAllowed) ==
  IF playAllowed /\ t = SourceDuration THEN {0, t} ELSE {t}

\* The seeked listener, then the loop body to its second await:
\* sourceVideo.play() (which leaves the element paused when the host
\* refuses playback) and startRenderTime = Date.now().
Seeked(r, playAllowed) ==
  /\ runs[r].pc = "seeking"
  /\ \E position \in playPositions(runs[r].currentTime, playAllowed) :
       runs' = [runs EXCEPT ![r] =
         [@ EXCEPT !.pc = "rendering",
                   !.paused = ~playAllowed,
                   !.elapsed = 0,
                   !.currentTime = position,
                   !.log = Append(@, <<"play", runs[r].segs[runs[r].k].id>>)]]
  /\ UNCHANGED <<sessionVars, orphans, abandoned>>

\* The host pauses the source element: playback reached the end of the
\* stream.
MediaEnded(r) ==
  /\ runs[r].pc = "rendering"
  /\ ~runs[r].paused
  /\ runs' = [runs EXCEPT ![r] = [@ EXCEPT !.paused = TRUE]]
  /\ UNCHANGED <<sessionVars, orphans, abandoned>>

\* Variant of renderStops with a strict comparison.
renderStopsLate(elapsed, durationMs, paused) ==
  elapsed > durationMs \/ paused

\* The test of renderFrame that ends the render loop of a segment.
renderStops(elapsed, durationMs, paused) ==
  elapsed >= durationMs \/ paused

\* One requestAnimationFrame callback of renderFrame, which sets ctx.font
\* anew before it draws the caption. fault "draw":
\* drawImage or the caption drawing throws; fault "seek": the next loop
\* body throws before its await.
RenderFrame(r, fault) ==
  LET run == runs[r]
      seg == run.segs[run.k]
      durationMs == (seg.endTime - seg.startTime) * 1000
      elapsed == run.elapsed
  IN
  /\ run.pc = "rendering"
  /\ IF renderStops(elapsed, durationMs, run.paused)
       THEN /\ fault \in {"none", "seek"}
            /\ fault = "seek" => run.k < Len(run.segs)
            /\ runs' = [runs EXCEPT ![r] =
                 enterSegment([run EXCEPT !.paused = TRUE,
                                          !.log = Append(@, <<"end", seg.id>>)],
                              run.k + 1, fault = "seek")]
       ELSE /\ fault \in {"none", "draw"}
            /\ IF fault = "draw"
                 THEN /\ runs' = [runs EXCEPT ![r] = [run EXCEPT !.pc = "threw"]]
                 ELSE \E font \in HostFonts :
                        runs' = [runs EXCEPT ![r] =
                          [run EXCEPT !.canvas = drawCaption(
                             captionCall(VideoSize, seg.text, font))]]
  /\ UNCHANGED <<sessionVars, orphans, abandoned>>

\* Variant of GraceTimeout that stops the recorder as soon as the loop is
\* over.
GraceTimeoutAtOnce(r) ==
  /\ runs[r].pc = "grace"
  /\ runs' = [runs EXCEPT ![r] =
       [@ EXCEPT !.pc = "stopping", !.recorder = "inactive",
                 !.log = Append(@, <<"stop", "">>)]]
  /\ UNCHANGED <<sessionVars, orphans, abandoned>>

\* The timer set after the loop fires: recorder.stop().
GraceTimeout(r) ==
  /\ runs[r].pc = "grace"
  /\ runs[r].timer = 0
  /\ runs' = [runs EXCEPT ![r] =
       [@ EXCEPT !.pc = "stopping", !.recorder = "inactive",
                 !.log = Append(@, <<"stop", "">>)]]
  /\ UNCHANGED <<sessionVars, orphans, abandoned>>

\* recorder.onstop: resolve(new Blob(chunks)), then the continuation of the
\* handler; the call is over.
RecorderStopped(r) ==
  /\ runs[r].pc = "stopping"
  /\ urlCount < MaxUrls
  /\ runs' = [runs EXCEPT ![r] = NoRun]
  /\ composeFulfilled
  /\ UNCHANGED <<orphans, abandoned>>

\* Time passes: Date.now() advances by a second for every render loop, and
\* the pending timers come a second nearer. Only a render loop and a grace timer
\* read the clock; it is advanced while one of them still waits for it.
waitsForClock(run) ==
  \/ run.pc = "rendering" /\ ~renderStops(run.elapsed,
         (run.segs[run.k].endTime - run.segs[run.k].startTime) * 1000, FALSE)
  \/ run.pc = "grace" /\ run.timer > 0

advance(run) ==
  CASE run.pc = "rendering" -> [run EXCEPT !.elapsed = @ + 1000]
    [] run.pc = "grace" -> [run EXCEPT !.timer = IF @ > 1000 THEN @ - 1000 ELSE 0]
    [] OTHER -> run

Tick ==
  /\ \E r \in RunIds : waitsForClock(runs[r])
  /\ runs' = [r \in RunIds |-> advance(runs[r])]
  /\ UNCHANGED <<sessionVars, orphans, abandoned>>

\* ---------------------------------------------------------- view layer
\* What the component renders decides which handlers the user can reach.
\* Variant of uploadRendered that shows the upload panel in every status.
uploadRenderedAlways == ~renderThrows

uploadRendered == ~renderThrows /\ status = IDLE
segmentListRendered ==
  ~renderThrows /\ status # ANALYZING /\ Len(filteredSegments) > 0
queuePanelRendered == ~renderThrows
generateDisabled ==
  renderThrows \/ Len(selectedSegments) = 0 \/ status = GENERATING
resultDialogRendered ==
  ~renderThrows /\ status = COMPLETED /\ finalVideoUrl # Null
errorToastRendered == ~renderThrows /\ error # Null

\* The history variable lastOp names the last handler call made past the
\* view (a call the rendered controls cannot make); every other step clears
\* it when such calls are part of the specification.
NoOp == [op |-> "none", n |-> 0, outcome |-> "none"]

Aux(direct) ==
  /\ UNCHANGED <<call, drawn>>
  /\ lastOp' = IF direct THEN NoOp ELSE lastOp

\* Callbacks of the host: analysis answers, media events, frames, timers.
HostStep(direct) ==
  \/ \E response \in Responses : AnalysisResolved(response) /\ Aux(direct)
  \/ AnalysisRejected /\ Aux(direct)
  \/ \E r \in RunIds, fault \in {"none", "setup", "seek"} :
       LoadedMetadata(r, fault) /\ Aux(direct)
  \/ \E r \in RunIds : MediaError(r) /\ Aux(direct)
  \/ OrphanStopped /\ Aux(direct)
  \/ \E r \in RunIds, playAllowed \in BOOLEAN : Seeked(r, playAllowed) /\ Aux(direct)
  \/ \E r \in RunIds : MediaEnded(r) /\ Aux(direct)
  \/ \E r \in RunIds, fault \in {"none", "seek", "draw"} :
       RenderFrame(r, fault) /\ Aux(direct)
  \/ \E r \in RunIds : GraceTimeout(r) /\ Aux(direct)
  \/ \E r \in RunIds : RecorderStopped(r) /\ Aux(direct)
  \/ Tick /\ Aux(direct)

\* The user acting on what is rendered.
UserStep(direct) ==
  \/ uploadRendered /\ handleFileUpload /\ Aux(direct)
  \/ \E i \in 1..Len(filteredSegments) :
       segmentListRendered /\ handleAddSegment(filteredSegments[i]) /\ Aux(direct)
  \/ \E idx \in 0..(Len(selectedSegments) - 1) :
       queuePanelRendered /\ handleRemoveSegment(idx) /\ Aux(direct)
  \/ queuePanelRendered /\ clearQueue /\ Aux(direct)
  \/ \E ctxOK \in BOOLEAN :
       ~generateDisabled /\ handleGenerateFinalVideo(ctxOK) /\ Aux(direct)
  \/ resultDialogRendered /\ dismissResult /\ Aux(direct)
  \/ errorToastRendered /\ dismissError /\ Aux(direct)

\* The session as its user and its host drive it.
Next == UserStep(FALSE) \/ HostStep(FALSE)

Spec == Init /\ [][Next]_vars

\* How a call of handleRemoveSegment or handleGenerateFinalVideo ends for
\* its caller: neither has a throw statement, and the promise of the async
\* handler is fulfilled after its early return.
handlerOutcome(name) == "returned"

\* Handler calls the view never makes: generating with an empty queue (the
\* button is disabled) and removing at an index no queue row has.
DirectCall ==
  \/ /\ ~renderThrows
     /\ Len(selectedSegments) = 0
     /\ handleGenerateFinalVideo(TRUE)
     /\ lastOp' = [op |-> "generate", n |-> 0,
                   outcome |-> handlerOutcome("generate")]
     /\ UNCHANGED <<call, drawn>>
  \/ \E index \in {-1, Len(selectedSegments)} :
       /\ ~renderThrows
       /\ handleRemoveSegment(index)
       /\ lastOp' = [op |-> "remove", n |-> index,
                     outcome |-> handlerOutcome("remove")]
       /\ UNCHANGED <<call, drawn>>

NextHandlers == UserStep(TRUE) \/ HostStep(TRUE) \/ DirectCall

SpecHandlers == Init /\ [][NextHandlers]_vars

\* ------------------------------------------------ caption layout alone
\* wrapText applied to bounded inputs: every text of up to MaxTextLen units,
\* fonts, font sizes, widths (one of them narrower than any unit), line
\* heights and bottom anchors.
RECURSIVE TextsUpTo(_)
TextsUpTo(n) ==
  IF n = 0 THEN {<<>>}
  ELSE LET shorter == TextsUpTo(n - 1)
       IN  shorter \cup {Append(t, c) : t \in shorter, c \in Chars}

CaptionCalls ==
  [ fontSize : {1, 2},
    font : Fonts,
    text : TextsUpTo(MaxTextLen),
    x : {200},
    y : {3312},
    maxWidth : {30, 150, 340},
    lineHeight : {120, 240} ]

InitCaption ==
  /\ status = IDLE
  /\ video = Null
  /\ segments = JsonArray(<<>>)
  /\ selectedSegments = <<>>
  /\ error = Null
  /\ finalVideoUrl = Null
  /\ urlCount = 0
  /\ pendingAnalyses = 0
  /\ runs = [r \in 1..MaxRuns |-> NoRun]
  /\ orphans = 0
  /\ abandoned = 0
  /\ call \in CaptionCalls
  /\ drawn = <<>>
  /\ lastOp = NoOp

\* wrapText(ctx, text, x, y, maxWidth, lineHeight) is called once.
CaptionDrawn ==
  /\ drawn = <<>>
  /\ drawn' = drawCaption(call)
  /\ UNCHANGED <<sessionVars, runs, orphans, abandoned, call, lastOp>>

NextCaption == CaptionDrawn

SpecCaption == InitCaption /\ [][NextCaption]_vars

\* ================================================================ claims
\* ------------------------------------------------------------------- C1
\* C1: a call of the generate handler while the selection queue is empty
\* leaves the session status as it was (from READY it stays READY), starts
\* no composition run, changes nothing else of the session, and sets the
\* error value.
C1_EmptyQueueGenerateRejected ==
  [][ (lastOp'.op = "generate" /\ Len(selectedSegments) = 0)
        => /\ status' = status
           /\ runs' = runs
           /\ orphans' = orphans
           /\ abandoned' = abandoned
           /\ error' # Null
           /\ selectedSegments' = selectedSegments
           /\ finalVideoUrl' = finalVideoUrl ]_vars

\* The handler was called in READY with nothing queued, and the session is
\* still READY, with the error set and no run alive.
C1_Witness ==
  /\ lastOp.op = "generate"
  /\ status = READY
  /\ Len(selectedSegments) = 0
  /\ error = ErrEmptyQueue
  /\ LiveRuns = {}

\* ------------------------------------------------------------------- C2
\* C2: every change of the session status is one of the listed transitions
\* (IDLE->ANALYZING, ANALYZING->READY, ANALYZING->IDLE, READY->GENERATING,
\* GENERATING->COMPLETED, GENERATING->READY, COMPLETED->READY, or a reset to
\* ANALYZING by a new upload), and GENERATING is entered only from READY with
\* a non-empty queue.
ListedTransitions ==
  { <<IDLE, ANALYZING>>, <<ANALYZING, READY>>, <<ANALYZING, IDLE>>,
    <<READY, GENERATING>>, <<GENERATING, COMPLETED>>, <<GENERATING, READY>>,
    <<COMPLETED, READY>> }
  \cup { <<s, ANALYZING>> : s \in AppStatus }

C2_OnlyListedTransitions ==
  [][ status' # status
        => /\ <<status, status'>> \in ListedTransitions
           /\ status' = GENERATING
                => status = READY /\ Len(selectedSegments) > 0 ]_vars

\* ------------------------------------------------------------------- C3
\* C3: when a composition run fails, because the source media fails to load
\* or decode or because the 2d context cannot be created, the session ends
\* in READY (a media failure takes it there from GENERATING), the error
\* value is set, and the selection queue and the artifact URL are what they
\* were.
C3_FailedRunReturnsToReady ==
  [][ /\ (\E r \in RunIds : MediaError(r)) => status = GENERATING
      /\ ( \/ \E r \in RunIds : MediaError(r)
           \/ ~generateDisabled /\ handleGenerateFinalVideo(FALSE) )
           => /\ status' = READY
              /\ error' # Null
              /\ selectedSegments' = selectedSegments
              /\ finalVideoUrl' = finalVideoUrl ]_vars

\* A run failed in the middle of its loop (its recorder still runs), the
\* session is READY with the error set and the queue still filled.
C3_Witness ==
  /\ orphans > 0
  /\ status = READY
  /\ error = ErrComposeUnknown
  /\ Len(selectedSegments) > 0
  /\ LiveRuns = {}

\* ------------------------------------------------------------------- C4
\* C4: an exception raised in a composition run after the metadata loaded
\* (audio or recorder setup, a seek, the drawing of a frame) fails the run:
\* with the step that raises it the session is READY and the error value is
\* set.
C4_ExceptionFailsRun ==
  [][ \A r \in RunIds :
        (runs[r].pc # "threw" /\ runs'[r].pc = "threw")
          => status' = READY /\ error' # Null ]_vars

\* ------------------------------------------------------------------- C5
\* C5: a composition run processes the segments of its queue in queue index
\* order and one at a time: its events are, in this order, the start of the
\* recorder, then for each queue element its seek, its play (after the seek
\* completed) and the end of its render loop, then the stop of the recorder;
\* while it seeks or renders, the last event is the seek or the play of the
\* one segment it is at.
RECURSIVE SegmentEvents(_)
SegmentEvents(segs) ==
  IF segs = <<>>
    THEN <<>>
    ELSE << <<"seek", Head(segs).id>>, <<"play", Head(segs).id>>,
            <<"end", Head(segs).id>> >> \o SegmentEvents(Tail(segs))

ExpectedLog(segs) ==
  << <<"start", "">> >> \o SegmentEvents(segs) \o << <<"stop", "">> >>

IsPrefix(s, t) == Len(s) <= Len(t) /\ s = SubSeq(t, 1, Len(s))

C5_SegmentsInQueueOrder ==
  \A r \in RunIds :
    LET run == runs[r]
    IN  /\ IsPrefix(run.log, ExpectedLog(run.segs))
        /\ run.pc = "seeking"
             => /\ Len(run.log) = 3 * run.k - 1
                /\ run.log[Len(run.log)] = <<"seek", run.segs[run.k].id>>
        /\ run.pc = "rendering"
             => /\ Len(run.log) = 3 * run.k
                /\ run.log[Len(run.log)] = <<"play", run.segs[run.k].id>>
        /\ run.pc \in {"grace", "stopping"}
             => Len(run.log) >= 1 + 3 * Len(run.segs)

\* A run over a queue whose order is not the order of the start times has
\* gone through all its segments and stopped its recorder.
C5_Witness ==
  \E r \in RunIds :
    /\ runs[r].segs = <<SegB, SegA>>
    /\ runs[r].pc = "stopping"
    /\ runs[r].log = ExpectedLog(<<SegB, SegA>>)

\* ------------------------------------------------------------------- C6
\* C6: a frame callback of the render loop of a segment stops the loop if
\* and only if the time elapsed since the render start has reached
\* endTime - startTime or the source is not playing; the stopping callback
\* pauses the source and draws nothing, every other callback draws one frame
\* with the caption of the segment and leaves the loop running.
C6_RenderLoopStops ==
  [][ \A r \in RunIds :
        RenderFrame(r, "none")
          => LET run == runs[r]
                 seg == run.segs[run.k]
                 stop == \/ run.elapsed >= (seg.endTime - seg.startTime) * 1000
                         \/ run.paused
             IN  IF stop
                   THEN /\ runs'[r].pc \in {"seeking", "grace"}
                        /\ runs'[r].paused
                        /\ runs'[r].canvas = run.canvas
                   ELSE /\ runs'[r].pc = "rendering"
                        /\ runs'[r].k = run.k
                        /\ runs'[r].paused = run.paused
                        /\ \E font \in HostFonts :
                             runs'[r].canvas =
                               drawCaption(captionCall(VideoSize, seg.text,
                                                       font)) ]_vars

\* A run drew the caption of its last segment, and the loop of that segment
\* then stopped with the source paused.
C6_Witness ==
  \E r \in RunIds :
    /\ runs[r].pc = "grace"
    /\ runs[r].paused
    /\ \E font \in HostFonts :
         runs[r].canvas =
           drawCaption(captionCall(VideoSize,
                                   runs[r].segs[Len(runs[r].segs)].text,
                                   font))

\* ------------------------------------------------------------------- C7
\* C7: a call of the remove handler with an index outside [0, length), on
\* an empty queue too, ends with QueueIndexError reported to its caller and
\* leaves the queue as it was.
C7_OutOfRangeRemoveFails ==
  [][ ( /\ lastOp'.op = "remove"
        /\ lastOp'.n \notin 0..(Len(selectedSegments) - 1) )
        => /\ lastOp'.outcome = "QueueIndexError"
           /\ selectedSegments' = selectedSegments ]_vars

\* ------------------------------------------------------------------- C8
\* C8: the selection queue behaves as a sequence: every change of it is an
\* append, a removal at one index or a clearing; adding a segment appends it
\* and grows the length by one, a segment already queued included; removing
\* at an index in [0, length) drops the element at that index and keeps the
\* others in order; clearing leaves the queue empty.
RemoveAtRef(q, index) == SubSeq(q, 1, index) \o SubSeq(q, index + 2, Len(q))

C8_QueueIsSequence ==
  [][ /\ selectedSegments' # selectedSegments
           => \/ \E seg \in {SegA, SegB, SegR, SegZ} :
                   selectedSegments' = selectedSegments \o <<seg>>
              \/ \E index \in 0..(Len(selectedSegments) - 1) :
                   selectedSegments' = RemoveAtRef(selectedSegments, index)
              \/ selectedSegments' = <<>>
      /\ \A i \in 1..Len(filteredSegments) :
           (segmentListRendered /\ handleAddSegment(filteredSegments[i]))
             => /\ Len(selectedSegments') = Len(selectedSegments) + 1
                /\ selectedSegments'[Len(selectedSegments')] = filteredSegments[i]
                /\ SubSeq(selectedSegments', 1, Len(selectedSegments))
                     = selectedSegments
      /\ \A index \in 0..(Len(selectedSegments) - 1) :
           handleRemoveSegment(index)
             => selectedSegments' = RemoveAtRef(selectedSegments, index)
      /\ clearQueue => Len(selectedSegments') = 0 ]_vars

\* The same segment is queued twice.
C8_Witness ==
  /\ Len(selectedSegments) = 2
  /\ selectedSegments[1].id = selectedSegments[2].id

\* ------------------------------------------------------------------- C9
\* C9: caption wrapping, for any text and any maxWidth, one narrower than a
\* single unit included: the lines drawn, concatenated in order, are the
\* text; every line has at least one unit unless the text is empty, and an
\* empty text gives exactly one empty line.
LinesDrawn(d) == [k \in 1..(Len(d) \div 2) |-> d[2 * k].text]

RECURSIVE Concat(_)
Concat(lines) ==
  IF lines = <<>> THEN <<>> ELSE Head(lines) \o Concat(Tail(lines))

C9_WrapRoundTrip ==
  drawn # <<>>
    => LET lines == LinesDrawn(drawn)
       IN  /\ Concat(lines) = call.text
           /\ call.text = <<>> => lines = << <<>> >>
           /\ call.text # <<>> => \A k \in 1..Len(lines) : Len(lines[k]) >= 1

\* A text of several units was wrapped to a width no unit fits in.
C9_Witness ==
  /\ drawn # <<>>
  /\ Len(call.text) >= 2
  /\ \A k \in 1..Len(call.text) :
       measureText(ctxOf(call), <<call.text[k]>>) > call.maxWidth

\* ------------------------------------------------------------------ C10
\* C10: caption placement: with n >= 1 wrapped lines, line k (from the
\* first) is stroked and then filled at y - (n - k) * lineHeight, so the
\* last line is at the bottom anchor y, each line is lineHeight above the
\* next, and the lines are drawn in text order.
C10_LinesAnchoredAtBottom ==
  drawn # <<>>
    => LET lines == wrapLines(ctxOf(call), call.text, call.maxWidth)
           n == Len(lines)
       IN  /\ n >= 1
           /\ Len(drawn) = 2 * n
           /\ \A k \in 1..n :
                /\ drawn[2 * k - 1] =
                     [op |-> "strokeText", text |-> lines[k], x |-> call.x,
                      y |-> call.y - (n - k) * call.lineHeight]
                /\ drawn[2 * k] =
                     [op |-> "fillText", text |-> lines[k], x |-> call.x,
                      y |-> call.y - (n - k) * call.lineHeight]

\* Three lines were drawn, the last of them at the anchor.
C10_Witness ==
  /\ Len(drawn) = 6
  /\ drawn[6].y = call.y
  /\ drawn[1].y = call.y - 2 * call.lineHeight


\* ------------------------------------------------------------------ C11
\* C11: every element of the selection queue is a segment of the current
\* segment set whose isRedundant flag is false: no redundant segment is ever
\* queued, and so none reaches a composition run or the caption layout.
C11_QueueHoldsUsefulSegments ==
  /\ \A i \in 1..Len(selectedSegments) :
       /\ \E j \in 1..Len(segments.items) :
            segments.items[j] = selectedSegments[i]
       /\ selectedSegments[i].isRedundant = FALSE
  /\ \A r \in RunIds : \A i \in 1..Len(runs[r].segs) :
       runs[r].segs[i].isRedundant = FALSE

\* The segment set holds a redundant segment, the queue is filled, and a
\* run over the queue draws captions.
C11_Witness ==
  /\ \E j \in 1..Len(segments.items) : segments.items[j].isRedundant
  /\ Len(selectedSegments) = MaxQueue
  /\ \E r \in RunIds : runs[r].pc = "rendering" /\ runs[r].canvas # <<>>


\* ------------------------------------------------------------------ C12
\* C12: every segment of the session's segment set has startTime >= 0 and
\* endTime > startTime: an entry of the analysis answer that violates this
\* is dropped or rejected on receipt, and never becomes selectable.
C12_SegmentsValidated ==
  /\ \A j \in 1..Len(segments.items) :
       /\ segments.items[j].startTime >= 0
       /\ segments.items[j].endTime > segments.items[j].startTime
  /\ \A i \in 1..Len(filteredSegments) :
       filteredSegments[i].endTime > filteredSegments[i].startTime


\* ------------------------------------------------------------------ C13
\* C13: for every answer of the analysis service that is no well-formed
\* sequence of segment records (unparseable text, empty text, JSON that is
\* no array) the analysis yields the empty sequence: the session becomes
\* READY with no selectable segment, the queue stays empty and generation
\* stays refused.
C13_MalformedAnswerDegrades ==
  [][ \A response \in Responses :
        (response.kind # "array" /\ AnalysisResolved(response))
          => /\ segments' = JsonArray(<<>>)
             /\ status' = READY
             /\ selectedSegments' = <<>>
             /\ ~renderThrows' ]_vars


\* ------------------------------------------------------------------ C14
\* C14: a failed analysis takes the session from ANALYZING to IDLE with the
\* error recorded and the video resource discarded: a video resource is held
\* exactly when the status is not IDLE.
C14_VideoHeldIffNotIdle ==
  (video # Null) <=> (status # IDLE)


\* ------------------------------------------------------------------ C15
\* C15: an accepted upload of a new video puts the session in ANALYZING
\* with nothing left of an earlier video: right after it the segment set is
\* empty, the queue is empty and no artifact URL is present.
C15_UploadStartsClean ==
  [][ (handleFileUpload \/ video' # video)
        => /\ status' = ANALYZING
           /\ segments' = JsonArray(<<>>)
           /\ selectedSegments' = <<>>
           /\ finalVideoUrl' = Null ]_vars

\* A second video was uploaded after the analysis of the first had failed.
C15_Witness ==
  /\ status = ANALYZING
  /\ video = createObjectURL(2)
  /\ error = ErrAnalysis


\* ------------------------------------------------------------------ C16
\* C16: object URLs are released when superseded: the only URLs not yet
\* revoked are the URL of the current video and the URL of the current
\* artifact, so at most one of each exists.
C16_SupersededUrlsRevoked ==
  /\ unrevokedUrls \subseteq {video, finalVideoUrl}
  /\ Cardinality(unrevokedUrls) <= 2


\* ------------------------------------------------------------------ C17
\* C17: whenever the status is COMPLETED an artifact URL is present; the
\* status becomes COMPLETED only from GENERATING, by a composition run whose
\* recorder stopped and whose blob got a new URL; dismissing the result
\* dialog takes COMPLETED to READY with the queue and the segment set as
\* they were.
C17_CompletedHasArtifact ==
  [][ /\ status' = COMPLETED => finalVideoUrl' # Null
      /\ (status # COMPLETED /\ status' = COMPLETED)
           => /\ status = GENERATING
              /\ \E r \in RunIds :
                   /\ runs[r].pc = "stopping"
                   /\ runs[r].promise = "pending"
                   /\ runs'[r].pc = "free"
              /\ finalVideoUrl' \notin unrevokedUrls
              /\ finalVideoUrl' \in unrevokedUrls'
      /\ (resultDialogRendered /\ dismissResult)
           => /\ status = COMPLETED
              /\ status' = READY
              /\ selectedSegments' = selectedSegments
              /\ segments' = segments
              /\ finalVideoUrl' = finalVideoUrl ]_vars

\* A run over a filled queue has completed and its artifact URL is shown.
C17_Witness ==
  /\ status = COMPLETED
  /\ finalVideoUrl = createObjectURL(urlCount)
  /\ Len(selectedSegments) > 0
  /\ LiveRuns = {}


\* ------------------------------------------------------------------ C18
\* C18: a composition run over a queue holding a segment whose startTime
\* lies beyond the duration of the source fails: it never completes with
\* its blob.
C18_SeekBeyondEndFails ==
  [][ \A r \in RunIds :
        (\E i \in 1..Len(runs[r].segs) :
           runs[r].segs[i].startTime > SourceDuration)
          => ~RecorderStopped(r) ]_vars


\* ------------------------------------------------------------------ C19
\* C19: in a composition run the recorder is started once, before the first
\* seek, and stopped once, after the render loop of the last queued segment
\* has ended and the grace interval has run out; once stopped it is not
\* started again; the run yields its blob (the artifact URL changes) only
\* after the stop, with every queued segment processed, and then the run is
\* over.
C19_RecorderStartedAndStoppedOnce ==
  [][ /\ \A r \in RunIds :
           /\ (runs[r].recorder # "recording" /\ runs'[r].recorder = "recording")
                => /\ runs[r].recorder = "none"
                   /\ runs[r].log = <<>>
                   /\ runs'[r].log[1] = <<"start", "">>
           /\ (runs[r].recorder # "inactive" /\ runs'[r].recorder = "inactive")
                => /\ runs[r].recorder = "recording"
                   /\ runs[r].pc = "grace"
                   /\ runs[r].timer = 0
                   /\ runs[r].k = Len(runs[r].segs)
                   /\ runs'[r].log = ExpectedLog(runs[r].segs)
           /\ runs[r].recorder = "inactive"
                => runs'[r].recorder \in {"inactive", "none"}
      /\ finalVideoUrl' # finalVideoUrl
           => \E r \in RunIds :
                /\ runs[r].recorder = "inactive"
                /\ runs[r].log = ExpectedLog(runs[r].segs)
                /\ runs[r].promise = "pending"
                /\ runs'[r] = NoRun ]_vars

\* The recorder of a run over a full queue has been stopped after the grace
\* interval, and its stop is not yet confirmed.
C19_Witness ==
  \E r \in RunIds :
    /\ runs[r].recorder = "inactive"
    /\ runs[r].timer = 0
    /\ runs[r].promise = "pending"
    /\ Len(runs[r].segs) = MaxQueue


\* ------------------------------------------------------------------ C20
\* The width measure of ctx does not decrease when a unit is appended to a
\* line, or when one is put in front of it.
AppendMonotone(ctx) ==
  \A l \in TextsUpTo(MaxTextLen), c \in Chars :
    measureText(ctx, Append(l, c)) >= measureText(ctx, l)

PrependMonotone(ctx) ==
  \A l \in TextsUpTo(MaxTextLen), c \in Chars :
    measureText(ctx, <<c>> \o l) >= measureText(ctx, l)

\* A line of more than one unit measures at most maxWidth, and every line
\* but the last is maximal.
LinesFitAndAreMaximal ==
  LET lines == LinesDrawn(drawn)
      width(l) == measureText(ctxOf(call), l)
  IN  /\ \A k \in 1..Len(lines) :
           Len(lines[k]) > 1 => width(lines[k]) <= call.maxWidth
      /\ \A k \in 1..(Len(lines) - 1) :
           width(Append(lines[k], lines[k + 1][1])) > call.maxWidth

\* A unit wider than maxWidth is a line of its own.
WideUnitsStandAlone ==
  LET lines == LinesDrawn(drawn)
      width(l) == measureText(ctxOf(call), l)
  IN  \A k \in 1..Len(lines) : \A j \in 1..Len(lines[k]) :
        width(<<lines[k][j]>>) > call.maxWidth => Len(lines[k]) = 1

\* C20 as stated: caption wrapping is greedy for every width measure that
\* does not decrease when a unit is appended: a line of more than one unit
\* measures at most maxWidth; every line but the last is maximal, that is,
\* with the first unit of the next line appended it measures more than
\* maxWidth; a unit wider than maxWidth is a line of its own.
C20_GreedyForAppendMonotone ==
  (drawn # <<>> /\ AppendMonotone(ctxOf(call)))
    => LinesFitAndAreMaximal /\ WideUnitsStandAlone

\* C20, amended: for every width measure, a line of more than one unit
\* measures at most maxWidth and every line but the last is maximal; for a
\* measure that does not decrease when a unit is appended to a line or put
\* in front of it (any measure that adds up the advances of the units), a
\* unit wider than maxWidth is a line of its own.
C20_WrapIsGreedy ==
  drawn # <<>>
    => /\ LinesFitAndAreMaximal
       /\ (AppendMonotone(ctxOf(call)) /\ PrependMonotone(ctxOf(call)))
            => WideUnitsStandAlone

\* Under a measure that grows both ways, a line of several units was closed
\* because the next unit did not fit, and a unit wider than maxWidth stands
\* alone on a line between others.
C20_Witness ==
  /\ drawn # <<>>
  /\ AppendMonotone(ctxOf(call))
  /\ PrependMonotone(ctxOf(call))
  /\ \E k \in 1..(Len(LinesDrawn(drawn)) - 1) : Len(LinesDrawn(drawn)[k]) > 1
  /\ \E k \in 1..Len(LinesDrawn(drawn)) :
       /\ Len(LinesDrawn(drawn)[k]) = 1
       /\ measureText(ctxOf(call), LinesDrawn(drawn)[k]) > call.maxWidth


\* ------------------------------------------------------------------ C21
\* C21: a composition run works on the queue as it was when generation was
\* requested: the segments of a run and their order are those of the queue
\* at the request and never change while the run lasts, whatever is added
\* to, removed from or cleared in the queue meanwhile; and no step of a run
\* changes the queue.
C21_RunWorksOnSnapshot ==
  [][ /\ \A r \in RunIds :
           /\ (runs[r].pc = "free" /\ runs'[r].pc # "free")
                => runs'[r].segs = selectedSegments
           /\ (runs[r].pc # "free" /\ runs'[r].pc # "free")
                => runs'[r].segs = runs[r].segs
      /\ runs' # runs => selectedSegments' = selectedSegments ]_vars

\* A run is rendering the second segment of the queue it was given, and
\* the queue has been cleared since.
C21_Witness ==
  /\ status = GENERATING
  /\ selectedSegments = <<>>
  /\ \E r \in RunIds :
       /\ runs[r].pc = "rendering"
       /\ runs[r].k = 2
       /\ runs[r].segs = <<SegA, SegB>>


\* ------------------------------------------------------------------ C22
\* C22: at most one composition run is in progress at any time: counting
\* the calls of composeVideoSegments whose recorder and canvas still exist,
\* those whose promise was already rejected included, there is never more
\* than one, and a live call whose promise is pending exists only while the
\* status is GENERATING.
C22_OneRunAtATime ==
  /\ Cardinality(LiveRuns) + orphans + abandoned <= 1
  /\ PendingRuns # {} => status = GENERATING

====
